---- MODULE Spec2Model ----
(***************************************************************************)
(* dh_price_counter: synchronisation of CRM deals and their product rows   *)
(* into a local SQLite store.                                              *)
(*                                                                         *)
(*   SpecPage  DealsService.getDealsByFilter (src/services/deals.js): the  *)
(*             paginated listing, one step per request and per response.   *)
(*   Spec      the three sync handlers of src/index.js, the Db write       *)
(*             methods of src/services/db.js, the sqlite3 statement queue  *)
(*             and the connect-timeout timer.                              *)
(*   SpecDb    the Db write methods alone, called by two invocations that  *)
(*             run at the same time.                                       *)
(*   SpecVault the init handler of src/index.js, the .env file, the        *)
(*             process environment and the decryptText of the sync calls.  *)
(***************************************************************************)
EXTENDS Integers, Sequences, FiniteSets, TLC

VARIABLES
    \* ---- getDealsByFilter (src/services/deals.js:31-63) ----
    pgPc,          \* "idle" | "loop" (about to request) | "await" | "done"
    start,         \* let start
    total,         \* let total
    allResults,    \* const allResults
    resolved,      \* what the promise resolved with: [isNull, value]
    remoteTotal,   \* number of records the remote holds now
    requests,      \* history: the offsets requested, in order
    reports,       \* history: res.total of every response, in order
    pages,         \* history: res.result of every response, in order
    drifts,        \* history: how often the remote's total changed mid-listing
    \* ---- the SQLite store (src/services/db.js:80-104) ----
    deals,           \* table deals: a set of rows
    deals_products,  \* table deals_products: a set of rows
    dbQueue,         \* statements handed to sqlite3 and not yet run, per call
    \* ---- the request being handled (src/index.js) ----
    hPc,           \* "idle" or the await the handler is suspended at
    hKind,         \* which handler: "none" | "add" | "pull" | "rows"
    hId,           \* add_deal_handler: let id (0: none provided)
    hDeal,         \* add_deal_handler: const deal
    hDeals,        \* pull-line-items: the deals still to visit
    hAll,          \* pull-line-items: const deals (what getAll resolved with)
    hRecords,      \* let records
    timedout,      \* req.timedout
    response,      \* status of the response sent for this request, 0: none yet
    fetchNull,     \* history: the client call of this request that resolved
                   \* with null, or "none"
    ineligible,    \* history: the deal this request fetched fails the check
    issued,        \* history: Db write calls of this request that queued work
    lastApplied,   \* history: the call whose statements sqlite3 ran last
    latest,        \* history: per table and key, the record upserted last
    \* ---- the credential (src/index.js:16-17, 159-194) ----
    envFile,          \* the lines of .env, <<>>: no file
    processEnv,       \* process.env: CRYPTO_KEY, CRYPTO_IV, BX_LINK
    bxLinkDecrypted,  \* what the latest decryptText of a sync call gave
    written,          \* history: req.body.bx_link of the init that wrote .env
    loaded            \* history: the bx_link whose values process.env holds

varsPage == <<pgPc, start, total, allResults, resolved, remoteTotal,
              requests, reports, pages, drifts>>

varsStore == <<deals, deals_products, dbQueue, lastApplied, latest>>

varsReq == <<hPc, hKind, hId, hDeal, hDeals, hAll, hRecords, timedout, response,
             fetchNull, ineligible, issued>>

varsVault == <<envFile, processEnv, bxLinkDecrypted, written, loaded>>

vars == <<pgPc, start, total, allResults, resolved, remoteTotal,
          requests, reports, pages, drifts,
          deals, deals_products, dbQueue, lastApplied, latest,
          hPc, hKind, hId, hDeal, hDeals, hAll, hRecords, timedout, response,
          fetchNull, ineligible, issued,
          envFile, processEnv, bxLinkDecrypted, written, loaded>>

\* resolve(null) and resolve(list)
NullResult == [isNull |-> TRUE, value |-> <<>>]
ListResult(list) == [isNull |-> FALSE, value |-> list]

\* ------------------------------------------------------------------ bounds
MaxTotal == 120      \* largest number of records the remote holds
MaxDrift == 1        \* changes of the remote's total during one listing
DriftStep == 30      \* size of one change of the remote's total
MaxDealId == 2       \* deal ids are 1..MaxDealId
MaxTitle == 1        \* titles are 1..MaxTitle
MaxProductId == 1    \* product ids are 1..MaxProductId
MaxAmount == 1       \* prices and discounts are 0..MaxAmount
MaxQueue == 2        \* Db calls whose statements sqlite3 has not run yet
MaxBatch == 2        \* records of one insertMultipleInTable call (SpecDb)
MaxCalls == 2        \* Db calls the two invocations make (SpecDb)
MaxSecretLen == 2    \* characters of a webhook link (SpecVault)
MaxKey == 2          \* cipher keys are the bytes 1..MaxKey (SpecVault)
MaxIv == 1           \* IVs are the bytes 0..MaxIv (SpecVault)

\* --------------------------------------------------------------- constants
pageSize == 50
AcceptedCategory == 68
AcceptedPriceType == 616

Min(a, b) == IF a < b THEN a ELSE b
Max(a, b) == IF a > b THEN a ELSE b

\* ------------------------------------------------------------- the remote
\* The remote's record at 0-based position i is identified by i.
\* crm.deal.list with "start": offset answers {result, total}: the records at
\* [offset, min(offset + 50, total)) and the total it holds at that moment.
RemotePage(offset, tot) ==
    LET hi == Min(offset + pageSize, tot)
        n  == IF hi > offset THEN hi - offset ELSE 0
    IN  [k \in 1..n |-> offset + k - 1]

\* ------------------------------------------------------- getDealsByFilter
\* start += pageSize
NextStartMut(s) == s + pageSize + 1
NextStart(s) == s + pageSize

\* while (start < total)
ContinueLoopMut(s, t) == s + pageSize < t
ContinueLoop(s, t) == s < t

\* if (res.total < pageSize) break
BreakEarly(t) == t < pageSize

\* allResults.push(...res.result)
PushAll(all, page) == all \o page

\* let start = 0; let total = 0; const allResults = []
ListCall ==
    /\ pgPc = "idle"
    /\ pgPc' = "loop"
    /\ start' = 0
    /\ total' = 0
    /\ allResults' = <<>>
    /\ UNCHANGED <<resolved, remoteTotal, requests, reports, pages, drifts>>
    /\ UNCHANGED <<varsStore, varsReq, varsVault>>

\* res = await this.bx.deals.list({select, filter, start}): the request leaves
ListRequest ==
    /\ pgPc = "loop"
    /\ pgPc' = "await"
    /\ requests' = Append(requests, start)
    /\ UNCHANGED <<start, total, allResults, resolved, remoteTotal, reports,
                   pages, drifts>>
    /\ UNCHANGED <<varsStore, varsReq, varsVault>>

\* the response arrives; the rest of the loop body and the loop test
ListResponse ==
    /\ pgPc = "await"
    /\ LET res == [result |-> RemotePage(start, remoteTotal),
                   total  |-> remoteTotal]
           newStart == NextStart(start)
           newAll == PushAll(allResults, res.result)
       IN  /\ total' = res.total
           /\ start' = newStart
           /\ allResults' = newAll
           /\ reports' = Append(reports, res.total)
           /\ pages' = Append(pages, res.result)
           /\ IF BreakEarly(res.total) \/ ~ContinueLoop(newStart, res.total)
              THEN /\ pgPc' = "done"
                   /\ resolved' = ListResult(newAll)
              ELSE /\ pgPc' = "loop"
                   /\ UNCHANGED resolved
    /\ UNCHANGED <<remoteTotal, requests, drifts>>
    /\ UNCHANGED <<varsStore, varsReq, varsVault>>

\* a catch that resolves with the pages fetched so far
ListErrorMut ==
    /\ pgPc = "await"
    /\ pgPc' = "done"
    /\ resolved' = ListResult(allResults)
    /\ UNCHANGED <<start, total, allResults, remoteTotal, requests, reports,
                   pages, drifts>>
    /\ UNCHANGED <<varsStore, varsReq, varsVault>>

\* the request throws: catch (error) { logMessage(...); resolve(null) }
ListError ==
    /\ pgPc = "await"
    /\ pgPc' = "done"
    /\ resolved' = NullResult
    /\ UNCHANGED <<start, total, allResults, remoteTotal, requests, reports,
                   pages, drifts>>
    /\ UNCHANGED <<varsStore, varsReq, varsVault>>

\* Records are added to or removed from the remote while a listing runs.
RemoteDrift ==
    /\ pgPc \in {"loop", "await"}
    /\ Len(reports) > 0
    /\ drifts < MaxDrift
    /\ \E t \in {Max(0, remoteTotal - DriftStep),
                 Min(MaxTotal, remoteTotal + DriftStep)} :
          /\ t /= remoteTotal
          /\ remoteTotal' = t
    /\ drifts' = drifts + 1
    /\ UNCHANGED <<pgPc, start, total, allResults, resolved, requests, reports,
                   pages>>
    /\ UNCHANGED <<varsStore, varsReq, varsVault>>


\* ---------------------------------------------------------------- values
\* Every field value is an integer: a text is identified by a number >= 1, and
\* 0 stands for the values JavaScript takes as false (0, ""). SQL NULL is -1.
SqlNull == 0 - 1
DealIds == 1..MaxDealId
Titles == 1..MaxTitle
Categories == {AcceptedCategory, AcceptedCategory + 1}
PriceTypes == {AcceptedPriceType, AcceptedPriceType + 1}
Dates == {1}
ProductIds == 1..MaxProductId
ProductNames == {1}
Amounts == 0..MaxAmount

\* what the remote answers to crm.deal.get / crm.deal.list
RemoteDeals ==
    [ID : DealIds, TITLE : Titles, CATEGORY_ID : Categories,
     UF_CRM_1710140074001 : PriceTypes, DATE_CREATE : Dates]

\* what the remote answers to crm.deal.productrows.get, per row
RemoteRows ==
    [PRODUCT_ID : ProductIds, PRODUCT_NAME : ProductNames,
     PRICE_BRUTTO : Amounts, DISCOUNT_SUM : Amounts]

\* A request to the remote throws, or is answered.
RemoteError == [ok |-> FALSE, body |-> <<>>]
RemoteOk(b) == [ok |-> TRUE, body |-> b]

\* lists the remote answers with: by increasing id, no id twice
DealLists ==
    {l \in UNION {[1..k -> RemoteDeals] : k \in 0..MaxDealId} :
        \A i \in 1..(Len(l) - 1) : l[i].ID < l[i + 1].ID}

RowLists ==
    {l \in UNION {[1..k -> RemoteRows] : k \in 0..MaxProductId} :
        \A i \in 1..(Len(l) - 1) : l[i].PRODUCT_ID < l[i + 1].PRODUCT_ID}

\* ------------------------------------------------------- DealsService
\* the remote's field names to the local ones
MapDeal(d) ==
    [id |-> d.ID, title |-> d.TITLE, category_id |-> d.CATEGORY_ID,
     price_type |-> d.UF_CRM_1710140074001, date_create |-> d.DATE_CREATE]

\* getDealById: resolve(mapped deal), or resolve(null) when the call throws
GetDealById(ans) ==
    IF ans.ok THEN ListResult(MapDeal(ans.body)) ELSE NullResult

\* getDealsByFilter when the remote holds fewer than pageSize matching deals:
\* one request, res.total < pageSize, break, resolve(allResults)
GetDealsByFilter(ans) ==
    IF ans.ok THEN ListResult(PushAll(<<>>, ans.body)) ELSE NullResult

MapProductRow(r) ==
    [PRODUCT_ID |-> r.PRODUCT_ID, PRODUCT_NAME |-> r.PRODUCT_NAME,
     PRICE_BRUTTO |-> r.PRICE_BRUTTO, DISCOUNT_SUM |-> r.DISCOUNT_SUM]

\* getDealProductRows: resolve(mapped rows), or resolve(null)
GetDealProductRows(ans) ==
    IF ans.ok
    THEN ListResult([i \in 1..Len(ans.body) |-> MapProductRow(ans.body[i])])
    ELSE NullResult

\* -------------------------------------------------------------------- Db
NoJob == [table |-> "none", by |-> "none", late |-> FALSE, cur |-> FALSE,
          failed |-> FALSE, multi |-> FALSE, records |-> <<>>, bad |-> {}]

\* record[field] || null
OrNull(v) == IF v = 0 THEN SqlNull ELSE v

\* the values bound to the statement: insertMultipleInTable maps them through
\* `|| null`, insertInTable passes Object.values(insertFields)
BoundRow(multi, rec) ==
    IF multi THEN [f \in DOMAIN rec |-> OrNull(rec[f])] ELSE rec

\* UNIQUE / PRIMARY KEY of the two tables; NULLs never conflict
Conflicts(table, r, row) ==
    IF table = "deals"
    THEN r.id = row.id
    ELSE /\ row.deal_id /= SqlNull
         /\ row.product_id /= SqlNull
         /\ r.deal_id = row.deal_id
         /\ r.product_id = row.product_id

\* INSERT OR REPLACE INTO table (...) VALUES (...)
InsertOrReplace(table, rows, row) ==
    {r \in rows : ~Conflicts(table, r, row)} \cup {row}

RECURSIVE RunStatements(_, _, _, _)
RunStatements(table, rows, multi, records) ==
    IF records = <<>> THEN rows
    ELSE RunStatements(table,
                       InsertOrReplace(table, rows, BoundRow(multi, Head(records))),
                       multi, Tail(records))

KeyOf(table, rec) ==
    IF table = "deals" THEN <<rec.id>> ELSE <<rec.deal_id, rec.product_id>>

RECURSIVE Remember(_, _, _)
Remember(table, known, records) ==
    IF records = <<>> THEN known
    ELSE Remember(table,
                  [k \in DOMAIN known \cup {KeyOf(table, Head(records))} |->
                      IF k = KeyOf(table, Head(records)) THEN Head(records)
                      ELSE known[k]],
                  Tail(records))

\* insertInTable(tableName, insertFields): the calls it queues
InsertInTable(table, rec, by, late) ==
    <<[table |-> table, records |-> <<rec>>, multi |-> FALSE, by |-> by,
       late |-> late, cur |-> TRUE]>>

\* insertMultipleInTable(tableName, records): an empty list throws inside the
\* method's own try and is logged there; nothing is queued
InsertMultipleInTable(table, records, by, late) ==
    IF Len(records) = 0 THEN <<>>
    ELSE <<[table |-> table, records |-> records, multi |-> TRUE, by |-> by,
            late |-> late, cur |-> TRUE]>>

\* a batch that stops at its first failing row
ExecutedMut(records, bad) ==
    IF bad = {} THEN records
    ELSE SubSeq(records, 1, (CHOOSE i \in bad : \A j \in bad : i <= j) - 1)

\* The statements of one call that take effect, in order: the rows at the
\* positions in `bad` fail (stmt.run calls back with err, which is logged) and
\* the loop and the COMMIT go on.
Executed(records, bad) ==
    LET keep == {i \in 1..Len(records) : i \notin bad}
        F[i \in 0..Len(records)] ==
            IF i = 0 THEN <<>>
            ELSE IF i \in keep THEN Append(F[i - 1], records[i]) ELSE F[i - 1]
    IN  F[Len(records)]

\* sqlite3 runs the statements one Db call queued: BEGIN, the rows in order,
\* COMMIT (insertMultipleInTable) or the single INSERT OR REPLACE
\* (insertInTable). A table the schema does not have takes no row. Any of the
\* row statements may fail (SQLITE_BUSY, SQLITE_MISMATCH, I/O). Two calls never
\* interleave their rows: each has its own connection and SQLite lets one
\* connection write at a time. `detail` says whether the history keeps the
\* records and the failed positions of the call.
ApplyJob(i, bad, detail) ==
    LET job == dbQueue[i]
        done == Executed(job.records, bad)
    IN  /\ dbQueue' = [k \in 1..(Len(dbQueue) - 1) |->
                          IF k < i THEN dbQueue[k] ELSE dbQueue[k + 1]]
        /\ lastApplied' =
              [table |-> job.table, by |-> job.by, late |-> job.late,
               cur |-> job.cur,
               failed |-> IF job.cur THEN (bad /= {} \/ lastApplied.failed)
                          ELSE lastApplied.failed,
               multi |-> (detail /\ job.multi),
               records |-> IF detail THEN job.records ELSE <<>>,
               bad |-> IF detail THEN bad ELSE {}]
        /\ IF job.table = "deals"
           THEN /\ deals' = RunStatements("deals", deals, job.multi, done)
                /\ latest' = [latest EXCEPT !.deals =
                                 Remember("deals", @, done)]
                /\ UNCHANGED deals_products
           ELSE IF job.table = "deals_products"
           THEN /\ deals_products' = RunStatements("deals_products",
                                         deals_products, job.multi, done)
                /\ latest' = [latest EXCEPT !.deals_products =
                                 Remember("deals_products", @, done)]
                /\ UNCHANGED deals
           ELSE UNCHANGED <<deals, deals_products, latest>>
        /\ UNCHANGED <<varsReq, varsPage, varsVault>>

DbApply ==
    \E i \in 1..Len(dbQueue) :
        \E bad \in SUBSET (1..Len(dbQueue[i].records)) :
            ApplyJob(i, bad, FALSE)

\* the same step, with the call's records and failures kept in the history
DbApplyLogged ==
    \E i \in 1..Len(dbQueue) :
        \E bad \in SUBSET (1..Len(dbQueue[i].records)) :
            ApplyJob(i, bad, TRUE)

\* ------------------------------------------- the Db under concurrent callers
\* Two sync invocations, "A" and "B", run at the same time and call the Db
\* write methods on deals_products with records of their own; their keys
\* overlap. "A" is the one whose call comes first. `issued` counts the calls.
Caller == IF issued = 0 THEN "A" ELSE "B"

LineItemRecords ==
    [deal_id : DealIds, product_id : ProductIds, product_name : ProductNames,
     price : Amounts, discount : Amounts]

Batches ==
    UNION {[1..k -> LineItemRecords] : k \in 1..MaxBatch}

DbCall(jobs) ==
    /\ issued < MaxCalls
    /\ Len(dbQueue) < MaxQueue
    /\ dbQueue' = dbQueue \o jobs
    /\ issued' = issued + 1
    /\ UNCHANGED <<deals, deals_products, lastApplied, latest, varsPage,
                   hPc, hKind, hId, hDeal, hDeals, hAll, hRecords, timedout,
                   response, fetchNull, ineligible, varsVault>>

\* db.insertMultipleInTable("deals_products", records) by an invocation
CallInsertMultiple ==
    \E records \in Batches :
        DbCall(InsertMultipleInTable("deals_products", records, Caller, FALSE))

\* db.insertInTable("deals_products", record) by an invocation
CallInsertOne ==
    \E rec \in LineItemRecords :
        DbCall(InsertInTable("deals_products", rec, Caller, FALSE))


\* ------------------------------------------------------------ the credential
\* Texts are sequences of bytes, hex strings sequences of the digits 0..15,
\* base64 strings sequences of the digits 0..63 and Base64Pad for "=".
Undefined == <<>>

Base64Pad == 64

\* the characters a link is made of: "/", "h" and the top byte
SecretChars == {47, 104, 255}

Secrets == UNION {[1..n -> SecretChars] : n \in 1..MaxSecretLen}

\* generateCryptoKeyAndIV(): {CRYPTO_KEY, CRYPTO_IV}, random, one block each
KeysAndIVs ==
    [CRYPTO_KEY : {<<k>> : k \in 1..MaxKey}, CRYPTO_IV : {<<v>> : v \in 0..MaxIv}]

\* padding to a whole number of (one-byte) blocks: one byte that holds 1
Pad(text) == Append(text, 1)

\* the block cipher in chaining mode: every block is combined with the
\* previous block of the ciphertext (the IV for the first) and the key
EncryptBlocks(plain, key, iv) ==
    LET C[i \in 0..Len(plain)] ==
            IF i = 0 THEN iv[1] ELSE (plain[i] + C[i - 1] + key[1]) % 256
    IN  [i \in 1..Len(plain) |-> C[i]]

DecryptBlocks(cipher, key, iv) ==
    [i \in 1..Len(cipher) |->
        (cipher[i] + 512 - (IF i = 1 THEN iv[1] ELSE cipher[i - 1]) - key[1]) % 256]

\* bytes as a hex string: two digits a byte
ToHex(bytes) ==
    [i \in 1..(2 * Len(bytes)) |->
        IF i % 2 = 1 THEN bytes[(i + 1) \div 2] \div 16 ELSE bytes[i \div 2] % 16]

\* Buffer.from(s, 'hex'): a byte for every pair of digits
FromHex(hex) ==
    [i \in 1..(Len(hex) \div 2) |-> 16 * hex[2 * i - 1] + hex[2 * i]]

Pow2(n) == IF n = 0 THEN 1 ELSE IF n = 2 THEN 4 ELSE IF n = 4 THEN 16
           ELSE IF n = 6 THEN 64 ELSE IF n = 8 THEN 256 ELSE 1024

\* buf.toString('base64'): the bits of the bytes six at a time, the last digit
\* filled with zero bits, and "=" up to a multiple of four digits
ToBase64(bytes) ==
    LET n == Len(bytes)
        digits == (8 * n + 5) \div 6
        padded == 4 * ((digits + 3) \div 4)
        byte(i) == IF i <= n THEN bytes[i] ELSE 0
        digit(k) ==
            LET bit == 6 * (k - 1)
                i == bit \div 8 + 1
                o == bit % 8
            IN  ((256 * byte(i) + byte(i + 1)) \div Pow2(10 - o)) % 64
    IN  [k \in 1..padded |-> IF k <= digits THEN digit(k) ELSE Base64Pad]

\* Buffer.from(s, 'base64'): the digits up to the first "=", six bits each,
\* eight bits a byte
FromBase64(str) ==
    LET m == Cardinality({k \in 1..Len(str) : str[k] /= Base64Pad})
        n == (6 * m) \div 8
        dig(k) == IF k <= m THEN str[k] ELSE 0
        byte(j) ==
            LET bit == 8 * (j - 1)
                k == bit \div 6 + 1
                o == bit % 6
            IN  ((64 * dig(k) + dig(k + 1)) \div Pow2(4 - o)) % 256
    IN  [j \in 1..n |-> byte(j)]

\* encryptText(text, key, iv): the ciphertext, as a hex string
EncryptText(text, key, iv) == ToHex(EncryptBlocks(Pad(text), key, iv))

\* decryptText(link, key, iv), link in base64: the text, or it throws (an
\* argument that is undefined, no block, corrupt padding)
DecryptError == [ok |-> FALSE, text |-> <<>>]

DecryptText(link, key, iv) ==
    IF link = Undefined \/ key = Undefined \/ iv = Undefined THEN DecryptError
    ELSE LET cipher == FromBase64(link) IN
         IF Len(cipher) = 0 THEN DecryptError
         ELSE LET plain == DecryptBlocks(cipher, key, iv) IN
              IF plain[Len(plain)] /= 1 THEN DecryptError
              ELSE [ok |-> TRUE, text |-> SubSeq(plain, 1, Len(plain) - 1)]

\* Buffer.from(bxLinkEncrypted, 'hex').toString('base64')
HexToBase64Mut(hex) == ToBase64(hex)
HexToBase64(hex) == ToBase64(FromHex(hex))

\* `CRYPTO_KEY=${...}\nCRYPTO_IV=${...}\nBX_LINK=${...}\n`, a line a pair
EnvContent(keyIv, link) ==
    <<<<"CRYPTO_KEY", keyIv.CRYPTO_KEY>>, <<"CRYPTO_IV", keyIv.CRYPTO_IV>>,
      <<"BX_LINK", link>>>>

EnvNames == {"CRYPTO_KEY", "CRYPTO_IV", "BX_LINK"}

\* dotenv.config({path: envPath}): the value of the first line of each name;
\* a name the file does not have stays undefined
DotenvParse(lines) ==
    [n \in EnvNames |->
        IF \E i \in 1..Len(lines) : lines[i][1] = n
        THEN lines[CHOOSE i \in 1..Len(lines) :
                     /\ lines[i][1] = n
                     /\ \A j \in 1..(i - 1) : lines[j][1] /= n][2]
        ELSE Undefined]

\* a fresh installation: no .env, nothing in process.env
VaultIdle ==
    /\ envFile = <<>>
    /\ processEnv = DotenvParse(<<>>)
    /\ bxLinkDecrypted = DecryptError
    /\ written = Undefined
    /\ loaded = Undefined

\* app.post(BASE_URL + "init/"): 400 without a link; else the key and IV are
\* generated, the link encrypted and the three values written to .env
InitHandler ==
    /\ \E bxLink \in Secrets \cup {<<>>} :
          IF bxLink = <<>>
          THEN /\ response' = 400
               /\ UNCHANGED <<envFile, written>>
          ELSE \E keyIv \in KeysAndIVs :
                  LET bxLinkEncrypted ==
                          EncryptText(bxLink, keyIv.CRYPTO_KEY, keyIv.CRYPTO_IV)
                      bxLinkEncryptedBase64 == HexToBase64(bxLinkEncrypted)
                  IN  /\ envFile' = EnvContent(keyIv, bxLinkEncryptedBase64)
                      /\ written' = bxLink
                      /\ response' = 200
    /\ UNCHANGED <<processEnv, bxLinkDecrypted, loaded>>
    /\ UNCHANGED <<varsStore, varsPage, hPc, hKind, hId, hDeal, hDeals, hAll,
                   hRecords, timedout, fetchNull, ineligible, issued>>

\* the process starts: dotenv.config({ path: envPath })
ProcessStart ==
    /\ processEnv' = DotenvParse(envFile)
    /\ loaded' = written
    /\ bxLinkDecrypted' = DecryptError
    /\ UNCHANGED <<envFile, written>>
    /\ UNCHANGED <<varsStore, varsPage, varsReq>>

\* a sync call: decryptText(process.env.BX_LINK, process.env.CRYPTO_KEY,
\* process.env.CRYPTO_IV)
SyncDecrypt ==
    /\ bxLinkDecrypted' = DecryptText(processEnv["BX_LINK"],
                                      processEnv["CRYPTO_KEY"],
                                      processEnv["CRYPTO_IV"])
    /\ UNCHANGED <<envFile, processEnv, written, loaded>>
    /\ UNCHANGED <<varsStore, varsPage, varsReq>>

NextVault ==
    \/ InitHandler
    \/ ProcessStart
    \/ SyncDecrypt

\* ------------------------------------------------------------ the handlers
NoDeal == [id |-> 0, title |-> 0, category_id |-> 0, price_type |-> 0,
           date_create |-> 0]

\* a deal is eligible when both fields hold the accepted values
Eligible(deal) ==
    deal.category_id = AcceptedCategory /\ deal.price_type = AcceptedPriceType

\* Number(deal.category_id) !== 68 && Number(deal.price_type) !== 616
RejectsDeal(deal) ==
    deal.category_id /= AcceptedCategory /\ deal.price_type /= AcceptedPriceType

\* {deal_id: deal.id, product_id: ..., product_name: ..., price: ..., discount: ...}
ProductRecord(dealId, pr) ==
    [deal_id |-> dealId, product_id |-> pr.PRODUCT_ID,
     product_name |-> pr.PRODUCT_NAME, price |-> pr.PRICE_BRUTTO,
     discount |-> pr.DISCOUNT_SUM]

ProductRecords(dealId, prs) ==
    [i \in 1..Len(prs) |-> ProductRecord(dealId, prs[i])]

\* SELECT * FROM deals: the rows by rowid, which is deals.id
RECURSIVE RowsById(_)
RowsById(rows) ==
    IF rows = {} THEN <<>>
    ELSE LET m == CHOOSE r \in rows : \A o \in rows : r.id <= o.id
         IN  <<m>> \o RowsById(rows \ {m})

\* the handler's local variables
Locals(id, deal, ds, all, recs) ==
    /\ hId' = id
    /\ hDeal' = deal
    /\ hDeals' = ds
    /\ hAll' = all
    /\ hRecords' = recs

\* the handler returns: its locals are gone (hId stays, as the request's ID)
Return ==
    /\ hPc' = "idle"
    /\ Locals(hId, NoDeal, <<>>, <<>>, <<>>)

\* A request is taken while no other is being handled. Work the earlier
\* requests queued stays queued.
CanStart ==
    /\ hPc = "idle"
    /\ Len(dbQueue) + 2 <= MaxQueue

Begin(kind) ==
    /\ hKind' = kind
    /\ timedout' = FALSE
    /\ fetchNull' = "none"
    /\ ineligible' = FALSE
    /\ issued' = 0
    /\ dbQueue' = [k \in 1..Len(dbQueue) |-> [dbQueue[k] EXCEPT !.cur = FALSE]]
    /\ lastApplied' = [lastApplied EXCEPT !.cur = FALSE, !.failed = FALSE]
    /\ UNCHANGED <<deals, deals_products, latest, varsPage, varsVault>>

\* res.status(s).json(...). After the timeout has answered the request, the
\* call throws (headers already sent), in the try and again in the catch, and
\* the handler's promise rejects unhandled: the process goes on, or exits and
\* the statements sqlite3 has not run are lost.
Reply(status, queue) ==
    IF timedout
    THEN /\ UNCHANGED response
         /\ dbQueue' \in {queue, <<>>}
    ELSE /\ response' = status
         /\ dbQueue' = queue

\* catch (error) { logMessage(...); res.status(500).json(...) }
Fail500Mut ==
    /\ Return
    /\ Reply(200, dbQueue)
    /\ UNCHANGED issued

Fail500 ==
    /\ Return
    /\ Reply(500, dbQueue)
    /\ UNCHANGED issued

\* add_deal_handler up to `await dealsService.getDealById(id)`
AddDealStart ==
    /\ CanStart
    /\ Begin("add")
    /\ \E id \in DealIds \cup {0} :
          IF id = 0
          THEN \* res.status(400).json(...); return
               /\ response' = 400
               /\ hPc' = "idle"
               /\ Locals(0, NoDeal, <<>>, <<>>, <<>>)
          ELSE /\ response' = 0
               /\ hPc' = "add_fetch"
               /\ Locals(id, NoDeal, <<>>, <<>>, <<>>)

\* getDealById resolved: the eligibility check, insertInTable("deals", deal),
\* up to `await dealsService.getDealProductRows(deal.id)`
AddDealFetched ==
    /\ hPc = "add_fetch"
    /\ \E ans \in {RemoteError} \cup
                  {RemoteOk(d) : d \in {x \in RemoteDeals : x.ID = hId}} :
          LET deal == GetDealById(ans) IN
          /\ fetchNull' = IF deal.isNull THEN "getDealById" ELSE fetchNull
          /\ ineligible' = (~deal.isNull /\ ~Eligible(deal.value))
          /\ IF deal.isNull
             THEN \* deal.category_id of null: TypeError
                  Fail500
             ELSE IF RejectsDeal(deal.value)
             THEN \* throw new Error(`Deal ${id} is not in categroy 68 ...`)
                  Fail500
             ELSE /\ dbQueue' = dbQueue \o
                        InsertInTable("deals", deal.value, "add", timedout)
                  /\ issued' = issued + 1
                  /\ hPc' = "add_rows"
                  /\ Locals(hId, deal.value, <<>>, <<>>, <<>>)
                  /\ UNCHANGED response
    /\ UNCHANGED <<hKind, timedout>>
    /\ UNCHANGED <<deals, deals_products, lastApplied, latest, varsPage, varsVault>>

\* getDealProductRows resolved: the records,
\* insertMultipleInTable("deal_products", records), the 200
AddDealRows ==
    /\ hPc = "add_rows"
    /\ \E ans \in {RemoteError} \cup {RemoteOk(l) : l \in RowLists} :
          LET productrows == GetDealProductRows(ans) IN
          /\ fetchNull' = IF productrows.isNull THEN "getDealProductRows"
                        ELSE fetchNull
          /\ IF productrows.isNull
             THEN \* productrows.forEach of null: TypeError
                  Fail500
             ELSE LET records == ProductRecords(hDeal.id, productrows.value)
                      jobs == InsertMultipleInTable("deal_products", records,
                                                    "add", timedout)
                  IN  /\ issued' = issued + Len(jobs)
                      /\ Return
                      /\ Reply(200, dbQueue \o jobs)
    /\ UNCHANGED <<hKind, timedout, ineligible>>
    /\ UNCHANGED <<deals, deals_products, lastApplied, latest, varsPage, varsVault>>

\* get_deals_from_bx_insert_in_db up to `await dealsService.getDealsByFilter`
PullAllStart ==
    /\ CanStart
    /\ Begin("pull")
    /\ response' = 0
    /\ hPc' = "pull_list"
    /\ Locals(0, NoDeal, <<>>, <<>>, <<>>)

\* getDealsByFilter resolved: .map, insertMultipleInTable("deals", deals),
\* `await` of its undefined, the 200
PullAllListed ==
    /\ hPc = "pull_list"
    /\ \E ans \in {RemoteError} \cup {RemoteOk(l) : l \in DealLists} :
          LET listed == GetDealsByFilter(ans) IN
          /\ fetchNull' = IF listed.isNull THEN "getDealsByFilter" ELSE fetchNull
          /\ IF listed.isNull
             THEN \* (null).map: TypeError
                  Fail500
             ELSE LET mapped == [i \in 1..Len(listed.value) |-> MapDeal(listed.value[i])]
                      jobs == InsertMultipleInTable("deals", mapped, "pull",
                                                    timedout)
                  IN  /\ issued' = issued + Len(jobs)
                      /\ Return
                      /\ Reply(200, dbQueue \o jobs)
    /\ UNCHANGED <<hKind, timedout, ineligible>>
    /\ UNCHANGED <<deals, deals_products, lastApplied, latest, varsPage, varsVault>>

\* get_deals_product_rows_from_bx_insert_in_db up to `await db.getAll("deals")`
RowsStart ==
    /\ CanStart
    /\ Begin("rows")
    /\ response' = 0
    /\ hPc' = "rows_read"
    /\ Locals(0, NoDeal, <<>>, <<>>, <<>>)

\* after the loop: insertMultipleInTable("deals_products", records), the 200
RowsFinish(records) ==
    LET jobs == InsertMultipleInTable("deals_products", records, "rows",
                                      timedout)
    IN  /\ issued' = issued + Len(jobs)
        /\ Return
        /\ Reply(200, dbQueue \o jobs)

\* getAll resolved with the rows of deals; the loop starts
RowsRead ==
    /\ hPc = "rows_read"
    /\ LET all == RowsById(deals) IN
       IF all = <<>>
       THEN RowsFinish(<<>>)
       ELSE /\ hPc' = "rows_fetch"
            /\ Locals(0, NoDeal, all, all, <<>>)
            /\ UNCHANGED <<dbQueue, response, issued>>
    /\ UNCHANGED <<hKind, timedout, fetchNull, ineligible>>
    /\ UNCHANGED <<deals, deals_products, lastApplied, latest, varsPage, varsVault>>

\* getDealProductRows(deal.id) resolved for the next deal of the loop
RowsFetched ==
    /\ hPc = "rows_fetch"
    /\ \E ans \in {RemoteError} \cup {RemoteOk(l) : l \in RowLists} :
          LET productrows == GetDealProductRows(ans) IN
          /\ fetchNull' = IF productrows.isNull THEN "getDealProductRows"
                        ELSE fetchNull
          /\ IF productrows.isNull
             THEN \* productrows.forEach of null: TypeError
                  Fail500
             ELSE LET records == hRecords \o
                          ProductRecords(Head(hDeals).id, productrows.value)
                  IN  IF Tail(hDeals) = <<>>
                      THEN RowsFinish(records)
                      ELSE /\ Locals(0, NoDeal, Tail(hDeals), hAll, records)
                           /\ UNCHANGED <<hPc, dbQueue, response, issued>>
    /\ UNCHANGED <<hKind, timedout, ineligible>>
    /\ UNCHANGED <<deals, deals_products, lastApplied, latest, varsPage, varsVault>>

\* app.use(timeout('20m')): the timer fires while the request is unanswered;
\* req.timedout is set and the 503 goes out. haltOnTimedOut is registered after
\* the handlers, which never call next(): it does not run.
Timeout ==
    /\ hPc /= "idle"
    /\ ~timedout
    /\ timedout' = TRUE
    /\ response' = 503
    /\ UNCHANGED <<hPc, hKind, hId, hDeal, hDeals, hAll, hRecords, fetchNull,
                   ineligible, issued>>
    /\ UNCHANGED <<varsStore, varsPage, varsVault>>

PageIdle ==
    /\ pgPc = "idle"
    /\ start = 0
    /\ total = 0
    /\ allResults = <<>>
    /\ resolved = NullResult
    /\ requests = <<>>
    /\ reports = <<>>
    /\ pages = <<>>
    /\ drifts = 0

\* new Db(); db.createTables(): both tables exist and, in a fresh file, are empty
SyncIdle ==
    /\ deals = {}
    /\ deals_products = {}
    /\ dbQueue = <<>>
    /\ lastApplied = NoJob
    /\ latest = [deals |-> <<>>, deals_products |-> <<>>]
    /\ hPc = "idle"
    /\ hKind = "none"
    /\ hId = 0
    /\ hDeal = NoDeal
    /\ hDeals = <<>>
    /\ hAll = <<>>
    /\ hRecords = <<>>
    /\ timedout = FALSE
    /\ response = 0
    /\ fetchNull = "none"
    /\ ineligible = FALSE
    /\ issued = 0

Init ==
    /\ PageIdle
    /\ remoteTotal = 0
    /\ SyncIdle
    /\ VaultIdle

Next ==
    \/ AddDealStart
    \/ AddDealFetched
    \/ AddDealRows
    \/ PullAllStart
    \/ PullAllListed
    \/ RowsStart
    \/ RowsRead
    \/ RowsFetched
    \/ Timeout
    \/ DbApply

Spec == Init /\ [][Next]_vars

\* the Db alone, called by two concurrent invocations
NextDb ==
    \/ CallInsertMultiple
    \/ CallInsertOne
    \/ DbApplyLogged

SpecDb == Init /\ [][NextDb]_vars

\* the credential alone: initialisations, process starts and sync calls
SpecVault == Init /\ [][NextVault]_vars

InitPage ==
    /\ PageIdle
    /\ remoteTotal \in 0..MaxTotal
    /\ SyncIdle
    /\ VaultIdle

NextPage ==
    \/ ListCall
    \/ ListRequest
    \/ ListResponse
    \/ ListError
    \/ RemoteDrift

SpecPage == InitPage /\ [][NextPage]_vars

\* The event loop runs every continuation of the listing, and every request is
\* answered or fails.
SpecPageFair ==
    SpecPage /\ WF_vars(ListRequest) /\ WF_vars(ListResponse \/ ListError)

\* --------------------------------------------------------------- listings
RECURSIVE Flatten(_)
Flatten(ps) == IF ps = <<>> THEN <<>> ELSE Head(ps) \o Flatten(Tail(ps))

AllRecords(t) == [k \in 1..t |-> k - 1]

ListSucceeded == pgPc = "done" /\ ~resolved.isNull

\* C1: while the remote's total stays constant, the listing issues at most
\* total \div 50 + 1 requests and a listing that resolves with a list resolves
\* with exactly the remote's `total` records; and such a listing always ends.
C1_Exact ==
    drifts = 0 =>
        /\ Len(requests) <= remoteTotal \div pageSize + 1
        /\ ListSucceeded => resolved.value = AllRecords(remoteTotal)

\* C1, with termination: C1_Exact always holds, and a listing whose remote
\* total stays constant reaches its resolve.
C1_ExactlyTotalAndTerminates ==
    /\ []C1_Exact
    /\ (pgPc = "loop" /\ drifts = 0) ~> (pgPc = "done" \/ drifts > 0)

C1_Witness ==
    /\ ListSucceeded
    /\ drifts = 0
    /\ remoteTotal = 2 * pageSize
    /\ Len(resolved.value) = 2 * pageSize
    /\ Len(requests) = 2

\* C5: the requests go out at offsets 0, 50, 100, ... one per offset; the
\* listing goes on to the next offset only while it is below the total just
\* reported and stops once it is not; each page is the one asked for, and the
\* result is the pages concatenated in request order.
C5_OffsetsInOrder ==
    /\ \A i \in 1..Len(requests) : requests[i] = (i - 1) * pageSize
    /\ \A i \in 1..Len(pages) : Len(pages[i]) <= pageSize
    /\ \A i \in 1..(Len(requests) - 1) : requests[i + 1] < reports[i]
    /\ ListSucceeded =>
          /\ Len(requests) * pageSize >= total
          /\ Len(pages) = Len(requests)
          /\ resolved.value = Flatten(pages)

C5_Witness ==
    /\ ListSucceeded
    /\ remoteTotal = 120
    /\ requests = <<0, 50, 100>>
    /\ Len(resolved.value) = 120

\* C6: a listing during which the remote's total changed ends with the explicit
\* error outcome (not with a list passed off as the result).
C6_MisreportEndsInError ==
    (pgPc = "done" /\ drifts > 0) => resolved.isNull

\* C13: no client operation throws to its caller or asks again: a request
\* that threw makes the operation resolve with null, for getDealsByFilter also
\* when pages were already fetched (they are dropped), and no offset is
\* requested twice; getDealById and getDealProductRows resolve with null on a
\* remote error.
C13_FailSoftNoRetry ==
    /\ (pgPc = "done" /\ Len(requests) > Len(reports)) => resolved = NullResult
    /\ Len(requests) <= Len(reports) + 1
    /\ \A i, j \in 1..Len(requests) : i /= j => requests[i] /= requests[j]
    /\ GetDealById(RemoteError) = NullResult
    /\ GetDealProductRows(RemoteError) = NullResult

C13_Witness ==
    /\ pgPc = "done"
    /\ Len(requests) = 2
    /\ Len(reports) = 1
    /\ allResults /= <<>>
    /\ resolved = NullResult

\* ------------------------------------------------- handlers and the store
ErrorStatus == {500, 503}

OwnWorkQueued == \E i \in 1..Len(dbQueue) : dbQueue[i].cur

\* C2: add-deal-by-id never has a deal written whose category_id or
\* price_type differs from 68 / 616, and a call that fetched such a deal ends
\* with an error response.
C2_IneligibleRejected ==
    (hKind = "add" /\ ineligible) =>
        /\ ~(lastApplied.cur /\ lastApplied.by = "add" /\ lastApplied.table = "deals")
        /\ hPc = "idle" => response \in ErrorStatus

\* C3: every row of the deals table holds the accepted category_id and
\* price_type.
C3_OnlyEligibleRows ==
    \A r \in deals : Eligible(r)

\* C4: each table holds at most one row per unique key, and the row of a key
\* holds exactly the field values of the record upserted last for that key.
C4_OneRowPerKeyLatestValues ==
    /\ \A r1, r2 \in deals : r1.id = r2.id => r1 = r2
    /\ \A r1, r2 \in deals_products :
          (r1.deal_id = r2.deal_id /\ r1.product_id = r2.product_id) => r1 = r2
    /\ \A k \in DOMAIN latest.deals : latest.deals[k] \in deals
    /\ \A k \in DOMAIN latest.deals_products :
          latest.deals_products[k] \in deals_products

\* C7: when a sync handler has sent its success response, none of the Db
\* writes it started is still waiting to be run.
C7_CommittedBeforeResponse ==
    (hPc = "idle" /\ response = 200) => ~OwnWorkQueued

\* C8: a pull-line-items call in which a line-item fetch failed still ends
\* with the success response.
C8_FailedFetchIsEmpty ==
    (hKind = "rows" /\ hPc = "idle" /\ fetchNull = "getDealProductRows"
        /\ ~timedout)
    => response = 200

\* C9: when getDealById resolves with null, add-deal-by-id has returned with an
\* error response and has started no Db write: nothing of this request is
\* queued and nothing of it was run, so both tables are as they were.
C9_NullFetchWritesNothing ==
    (hKind = "add" /\ fetchNull = "getDealById") =>
        /\ hPc = "idle"
        /\ response \in ErrorStatus
        /\ issued = 0
        /\ ~OwnWorkQueued
        /\ ~lastApplied.cur

C9_Witness ==
    /\ hKind = "add"
    /\ fetchNull = "getDealById"
    /\ response = 500
    /\ \E r \in deals : r.id = hId

\* C10: no Db write that a request started after its timeout fired is run.
C10_NoWriteAfterTimeout ==
    ~lastApplied.late

\* C16: when add-deal-by-id has answered 200, the statements it started have
\* all run and none of them failed, the deals table holds the deal and, when
\* the remote returned line items for it, deals_products holds a row of it.
C16_AddDealStoresDealAndItems ==
    (hKind = "add" /\ hPc = "idle" /\ response = 200 /\ ~OwnWorkQueued
        /\ ~lastApplied.failed /\ issued >= 1)
    => /\ \E r \in deals : r.id = hId
       /\ issued = 2 => \E r \in deals_products : r.deal_id = hId

SameKeyLater(records, bad, i) ==
    \E j \in (i + 1)..Len(records) :
        /\ j \notin bad
        /\ KeyOf("deals_products", records[j]) = KeyOf("deals_products", records[i])

RowsOfKey(k) ==
    {r \in deals_products : KeyOf("deals_products", r) = k}

\* C11: once both invocations' calls have run, in whichever order, every key
\* of the call that ran last has exactly one row, and that row holds the
\* field values of the last record the call wrote for the key.
C11_LastWriterWinsInFull ==
    (issued >= 2 /\ dbQueue = <<>> /\ lastApplied.bad = {}) =>
        \A i \in 1..Len(lastApplied.records) :
            ~SameKeyLater(lastApplied.records, {}, i) =>
                RowsOfKey(KeyOf("deals_products", lastApplied.records[i]))
                    = {lastApplied.records[i]}

\* C14: a step that runs the statement of a call with one record leaves the
\* table as the other write method would have left it with the same record.
C14_OneIsManyOfOne ==
    [][(Len(dbQueue') < Len(dbQueue) /\ Len(lastApplied'.records) = 1
            /\ lastApplied'.bad = {})
       => deals_products' =
              RunStatements("deals_products", deals_products,
                            ~lastApplied'.multi, lastApplied'.records)]_vars

\* C15: after a batch call has run, every record of it whose statement did not
\* fail is in the table (as the values bound for it), unless a later record of
\* the batch with the same key took its place: rows before and after a
\* failing row are applied, and the call is off the queue, committed.
C15_FailingRowDoesNotAbort ==
    lastApplied.multi =>
        \A i \in 1..Len(lastApplied.records) :
            (i \notin lastApplied.bad
                /\ ~SameKeyLater(lastApplied.records, lastApplied.bad, i))
            => BoundRow(TRUE, lastApplied.records[i]) \in deals_products

C15_Witness ==
    /\ lastApplied.multi
    /\ Len(lastApplied.records) = 2
    /\ lastApplied.bad = {1}
    /\ BoundRow(TRUE, lastApplied.records[2]) \in deals_products
    /\ BoundRow(TRUE, lastApplied.records[1]) \notin deals_products

====
